---------------------------- MODULE Spec2Model ----------------------------
(***************************************************************************)
(* Model of src/app.py: the movie recommendation chatbot.                  *)
(*                                                                         *)
(* Text is modelled as a sequence of one-character strings, so that        *)
(* lower(), strip(), slicing, substring tests and int() are computed on    *)
(* characters as the Python code computes them.  A movie record is a       *)
(* record with the fields the code reads: id, original_language,           *)
(* release_date and title.  None (or a missing key) is NoneId for the id   *)
(* and the empty text for the two string fields, which the code treats     *)
(* alike ("m.get(k) or ''", "if not d").                                   *)
(***************************************************************************)
EXTENDS Integers, Sequences, FiniteSets, TLC

VARIABLES
    messages,      \* st.session_state.messages: those the last run appended
    prefs,         \* st.session_state.prefs
    q_index,       \* st.session_state.q_index
    done,          \* st.session_state.done
    genre_cache,   \* st.cache_data of get_genre_map: filled after one success
    gateway,       \* what TMDB answered to the calls of the last run
    args,          \* arguments of the function applied, or the text submitted
    ret,           \* its result
    pc             \* "ready" before a function is applied, "returned" after

vars == <<messages, prefs, q_index, done, genre_cache, gateway, args, ret, pc>>

-----------------------------------------------------------------------------
(* Text helpers.                                                           *)

Min(a, b) == IF a <= b THEN a ELSE b
Max(a, b) == IF a >= b THEN a ELSE b

Range(s) == { s[i] : i \in 1..Len(s) }

\* seq[:n] of Python, negative n included.
PySliceTo(s, n) ==
    IF n >= 0 THEN SubSeq(s, 1, Min(n, Len(s)))
    ELSE SubSeq(s, 1, Max(Len(s) + n, 0))

\* str.lower() on one character.
LowerChar(c) ==
    CASE c = "A" -> "a" [] c = "B" -> "b" [] c = "C" -> "c" [] c = "D" -> "d"
      [] c = "E" -> "e" [] c = "F" -> "f" [] c = "G" -> "g" [] c = "H" -> "h"
      [] c = "I" -> "i" [] c = "J" -> "j" [] c = "K" -> "k" [] c = "L" -> "l"
      [] c = "M" -> "m" [] c = "N" -> "n" [] c = "O" -> "o" [] c = "P" -> "p"
      [] c = "Q" -> "q" [] c = "R" -> "r" [] c = "S" -> "s" [] c = "T" -> "t"
      [] c = "U" -> "u" [] c = "V" -> "v" [] c = "W" -> "w" [] c = "X" -> "x"
      [] c = "Y" -> "y" [] c = "Z" -> "z"
      [] OTHER -> c

\* str.lower()
Lower(t) == [ i \in 1..Len(t) |-> LowerChar(t[i]) ]

IsSpace(c) == c = " "

RECURSIVE LStrip(_)
LStrip(t) == IF t # <<>> /\ IsSpace(Head(t)) THEN LStrip(Tail(t)) ELSE t

RECURSIVE RStrip(_)
RStrip(t) ==
    IF t # <<>> /\ IsSpace(t[Len(t)]) THEN RStrip(SubSeq(t, 1, Len(t) - 1)) ELSE t

\* str.strip()
Strip(t) == RStrip(LStrip(t))

\* "needle in t" for texts
Contains(t, needle) ==
    \E i \in 1..(Len(t) - Len(needle) + 1) :
        SubSeq(t, i, i + Len(needle) - 1) = needle

Digits == <<"0", "1", "2", "3", "4", "5", "6", "7", "8", "9">>
IsDigit(c) == c \in Range(Digits)
DigitVal(c) == (CHOOSE i \in 1..10 : Digits[i] = c) - 1

-----------------------------------------------------------------------------
(* Movie records.                                                          *)

\* m.get("id") when the key is missing or null
NoneId == -1

Movie(i, lang, date, title) ==
    [id |-> i, original_language |-> lang, release_date |-> date, title |-> title]

Ids(s) == { s[i].id : i \in 1..Len(s) }

NoRepeatedId(s) == \A i, j \in 1..Len(s) : i # j => s[i].id # s[j].id

\* "if mid": None and 0 are falsy
Truthy(mid) == mid # NoneId /\ mid # 0

\* unique_movies without its "mid not in seen" test
unique_movies_keep_repeats(movies) ==
    SelectSeq(movies, LAMBDA m : Truthy(m.id))

unique_movies(movies) ==
    LET loop[i \in 0..Len(movies)] ==
            IF i = 0 THEN [seen |-> {}, out |-> <<>>]
            ELSE LET p == loop[i - 1]
                     mid == movies[i].id
                 IN IF Truthy(mid) /\ mid \notin p.seen
                    THEN [seen |-> p.seen \cup {mid}, out |-> Append(p.out, movies[i])]
                    ELSE p
    IN loop[Len(movies)].out

-----------------------------------------------------------------------------
(* year_from_date: int(d[:4]), None when d is empty or int() raises.       *)

\* The digits of a numeric literal body: digits, single underscores between them.
IntBodyOk(b) ==
    /\ b # <<>>
    /\ \A i \in 1..Len(b) : IsDigit(b[i]) \/ b[i] = "_"
    /\ IsDigit(b[1]) /\ IsDigit(b[Len(b)])
    /\ \A i \in 1..(Len(b) - 1) : ~(b[i] = "_" /\ b[i + 1] = "_")

RECURSIVE IntBodyVal(_, _)
IntBodyVal(b, acc) ==
    IF b = <<>> THEN acc
    ELSE IF Head(b) = "_" THEN IntBodyVal(Tail(b), acc)
    ELSE IntBodyVal(Tail(b), 10 * acc + DigitVal(Head(b)))

\* int(t) of Python on a text: surrounding blanks, an optional sign, the digits.
\* [ok |-> FALSE] stands for the ValueError.
PyInt(t) ==
    LET s == Strip(t)
        signed == s # <<>> /\ Head(s) \in {"+", "-"}
        body == IF signed THEN Tail(s) ELSE s
    IN IF IntBodyOk(body)
       THEN [ok |-> TRUE,
             val |-> IF signed /\ Head(s) = "-"
                     THEN 0 - IntBodyVal(body, 0) ELSE IntBodyVal(body, 0)]
       ELSE [ok |-> FALSE, val |-> 0]

\* [ok |-> FALSE] stands for None.
year_from_date(d) ==
    IF d = <<>> THEN [ok |-> FALSE, val |-> 0]
    ELSE PyInt(PySliceTo(d, 4))

-----------------------------------------------------------------------------
(* balanced_sample_by_year.  random.shuffle is a choice rnd made by the    *)
(* caller: rnd.all permutes the deduplicated pool (fallback path) and      *)
(* rnd.by_year[y] permutes the bucket of year y, each independently.       *)

Dateable(m) == year_from_date(m.release_date).ok
YearOf(m) == year_from_date(m.release_date).val

\* y = year_from_date(m.get("release_date", "")) of every record of u
Years(u) == [ i \in 1..Len(u) |-> year_from_date(u[i].release_date) ]

\* buckets.keys()
BucketYears(u) ==
    LET yr == Years(u)
    IN { yr[i].val : i \in { j \in 1..Len(u) : yr[j].ok } }

\* the records of s at the positions in P, in order
RECURSIVE AtPositions(_, _, _)
AtPositions(s, P, i) ==
    IF i > Len(s) THEN <<>>
    ELSE IF i \in P THEN <<s[i]>> \o AtPositions(s, P, i + 1)
    ELSE AtPositions(s, P, i + 1)

\* the buckets, each in pool order
Buckets(u) ==
    LET yr == Years(u)
    IN [ y \in BucketYears(u) |->
           AtPositions(u, { i \in 1..Len(u) : yr[i].ok /\ yr[i].val = y }, 1) ]

\* sorted(keys) without reverse=True
RECURSIVE SortedAsc(_)
SortedAsc(S) ==
    IF S = {} THEN <<>>
    ELSE LET mn == CHOOSE x \in S : \A y \in S : x <= y
         IN <<mn>> \o SortedAsc(S \ {mn})

\* sorted(keys, reverse=True)
RECURSIVE SortedDesc(_)
SortedDesc(S) ==
    IF S = {} THEN <<>>
    ELSE LET mx == CHOOSE x \in S : \A y \in S : y <= x
         IN <<mx>> \o SortedDesc(S \ {mx})

\* one outcome of random.shuffle(s)
Shuffle(s, p) == [ i \in 1..Len(s) |-> s[p[i]] ]

\* every choice of one permutation per bucket
RECURSIVE BucketPerms(_, _)
BucketPerms(b, ys) ==
    IF ys = {} THEN { <<>> }
    ELSE LET y == CHOOSE x \in ys : TRUE
         IN { (y :> p) @@ f : p \in Permutations(1..Len(b[y])),
                              f \in BucketPerms(b, ys \ {y}) }

\* every outcome the shuffles of one call can take
ShuffleChoices(movies) ==
    LET u == unique_movies(movies)
        b == Buckets(u)
        ident == [ i \in 1..Len(u) |-> i ]
    IN IF DOMAIN b = {}
       THEN { [all |-> p, by_year |-> <<>>] : p \in Permutations(1..Len(u)) }
       ELSE { [all |-> ident, by_year |-> f] : f \in BucketPerms(b, DOMAIN b) }

\* the "for y in years" pass at position idx, with its break
RECURSIVE ForYears(_, _, _, _, _, _)
ForYears(buckets, years, k, idx, n, acc) ==
    IF k > Len(years) THEN acc
    ELSE LET b == buckets[years[k]]
         IN IF idx < Len(b)
            THEN LET picked == Append(acc.picked, b[idx + 1])
                 IN IF Len(picked) >= n
                    THEN [picked |-> picked, progressed |-> TRUE]
                    ELSE ForYears(buckets, years, k + 1, idx, n,
                                  [picked |-> picked, progressed |-> TRUE])
            ELSE ForYears(buckets, years, k + 1, idx, n, acc)

\* the "while len(picked) < n" loop
RECURSIVE RoundRobin(_, _, _, _, _)
RoundRobin(buckets, years, idx, n, picked) ==
    IF ~(Len(picked) < n) THEN picked
    ELSE LET pass == ForYears(buckets, years, 1, idx, n,
                              [picked |-> picked, progressed |-> FALSE])
         IN IF ~pass.progressed THEN pass.picked
            ELSE RoundRobin(buckets, years, idx + 1, n, pass.picked)

balanced_sample_by_year(movies, n, rnd) ==
    LET u == unique_movies(movies)
        b == Buckets(u)
        years == SortedDesc(DOMAIN b)
        buckets == [ y \in DOMAIN b |-> Shuffle(b[y], rnd.by_year[y]) ]
    IN IF DOMAIN b = {}
       THEN PySliceTo(Shuffle(u, rnd.all), n)
       ELSE PySliceTo(RoundRobin(buckets, years, 0, n, <<>>), n)

-----------------------------------------------------------------------------
(* Configuration and the chat's text functions.                            *)

\* the three values of prefs["mix"], and one that is none of them
MORE_INDIAN == <<"m", "o", "r", "e", "_", "i", "n", "d", "i", "a", "n">>
MORE_GLOBAL == <<"m", "o", "r", "e", "_", "g", "l", "o", "b", "a", "l">>
FIFTY_FIFTY == <<"5", "0", "_", "5", "0">>
BOTH == <<"b", "o", "t", "h">>

INDIAN_LANG_CODES == <<<<"h", "i">>, <<"t", "a">>, <<"t", "e">>, <<"m", "l">>, <<"k", "n">>>>

SKIP_WORDS ==
    { <<"s", "k", "i", "p">>, <<"i", "d", "k">>,
      <<"i", " ", "d", "o", "n", "'", "t", " ", "k", "n", "o", "w">>,
      <<"d", "o", "n", "t", " ", "k", "n", "o", "w">>,
      <<"r", "a", "n", "d", "o", "m">>, <<"s", "u", "r", "p", "r", "i", "s", "e", " ", "m", "e">>,
      <<>> }

normalize_answer(text) ==
    LET t == Strip(text)
    IN IF Lower(t) \in SKIP_WORDS THEN <<>> ELSE t

\* infer_mix with its two tests in the other order
infer_mix_global_first(text) ==
    LET t == Strip(Lower(text))
    IN IF Contains(t, <<"g", "l", "o", "b">>) \/ Contains(t, <<"h", "o", "l", "l", "y">>) \/ Contains(t, <<"o", "t", "h", "e", "r">>)
       THEN MORE_GLOBAL
       ELSE IF Contains(t, <<"i", "n", "d">>) THEN MORE_INDIAN
       ELSE FIFTY_FIFTY

infer_mix(text) ==
    LET t == Strip(Lower(text))
    IN IF Contains(t, <<"i", "n", "d">>) THEN MORE_INDIAN
       ELSE IF Contains(t, <<"g", "l", "o", "b">>) \/ Contains(t, <<"h", "o", "l", "l", "y">>) \/ Contains(t, <<"o", "t", "h", "e", "r">>)
       THEN MORE_GLOBAL
       ELSE FIFTY_FIFTY

\* label_movie's and build_recommendations' test:
\* (m.get("original_language") or "").lower() in set(INDIAN_LANG_CODES)
IsIndian(m) == Lower(m.original_language) \in Range(INDIAN_LANG_CODES)

\* label_movie without .lower()
label_movie_case_sensitive(m) ==
    IF m.original_language \in Range(INDIAN_LANG_CODES) THEN "Indian" ELSE "Global"

label_movie(m) == IF IsIndian(m) THEN "Indian" ELSE "Global"

-----------------------------------------------------------------------------
(* The mix ratio of build_recommendations.                                 *)

\* the largest power of two not above q (q >= 1)
RECURSIVE Pow2Floor(_, _)
Pow2Floor(q, p) == IF 2 * p <= q THEN Pow2Floor(q, 2 * p) ELSE p

\* int(round(count * 0.w)) for w in {3, 7} and count >= 0.  count * w / 10 is
\* half-way between two integers only when count * w ends in 5.  The double
\* nearest 0.7 is 0.7 - 0.4 * 2^-53 and the one nearest 0.3 is
\* 0.3 - 0.1 * 2^-53, so the floating-point product is the half-way value
\* itself (round() then takes the even neighbour) unless count times that
\* error exceeds half the spacing of the doubles below it, and then the
\* product is below the half-way value and round() takes the lower integer.
PyRoundTenths(count, w) ==
    LET num == count * w
        q == num \div 10
        err == IF w = 7 THEN 4 * count ELSE count
    IN IF num % 10 # 5 THEN (num + 5) \div 10
       ELSE IF err > 10 * Pow2Floor(q, 1) THEN q
       ELSE IF q % 2 = 0 THEN q ELSE q + 1

\* prefs.get("mix", "50_50"), replaced by "50_50" when not one of the three
MixPref(p) ==
    LET mix_pref == IF "mix" \in DOMAIN p THEN p.mix ELSE FIFTY_FIFTY
    IN IF mix_pref \notin {FIFTY_FIFTY, MORE_INDIAN, MORE_GLOBAL}
       THEN FIFTY_FIFTY ELSE mix_pref

\* MixSplit with the global share rounded on its own instead of count - ind_n
MixSplit_round_both(mix_pref, count) ==
    IF mix_pref = MORE_INDIAN
    THEN [ind_n |-> PyRoundTenths(count, 7), glob_n |-> PyRoundTenths(count, 3)]
    ELSE IF mix_pref = MORE_GLOBAL
    THEN [ind_n |-> PyRoundTenths(count, 3), glob_n |-> PyRoundTenths(count, 7)]
    ELSE [ind_n |-> count \div 2, glob_n |-> count \div 2]

MixSplit(mix_pref, count) ==
    LET ind_n == IF mix_pref = MORE_INDIAN THEN PyRoundTenths(count, 7)
                 ELSE IF mix_pref = MORE_GLOBAL THEN PyRoundTenths(count, 3)
                 ELSE count \div 2
    IN [ind_n |-> ind_n, glob_n |-> count - ind_n]

-----------------------------------------------------------------------------
(* The TMDB gateway and build_recommendations.                             *)
(*                                                                         *)
(* What TMDB answers is an input of the request, gw:                       *)
(*   gw.lang    the results of the language-filtered discover calls,       *)
(*   gw.region  the results of the region-filtered discover calls,         *)
(*   gw.person  the id of the first /search/person result (NoneId: none),  *)
(*   gw.actor   the results of the with_cast discover calls,               *)
(*   gw.fail_at the number of the call of this request on which tmdb_get   *)
(*              raises (0: no call fails).                                 *)
(* The k-th call of a loop gets the k-th page of PageLen results.  The     *)
(* query parameters (dates, genre id, language, region, vote counts) only  *)
(* select what TMDB answers, so the genre id is not computed: only the     *)
(* genre catalog call, made unless st.cache_data holds its result.         *)

GLOBAL_REGIONS == <<"US", "KR", "JP", "FR", "ES">>

PageLen == 1       \* results per page of the gateway stub

\* data.get("results", []) of the k-th call of a loop
Page(results, k) ==
    SubSeq(results, (k - 1) * PageLen + 1, Min(k * PageLen, Len(results)))

RECURSIVE ExtendPages(_, _, _)
ExtendPages(results, k, ncalls) ==
    IF k > ncalls THEN <<>>
    ELSE Page(results, k) \o ExtendPages(results, k + 1, ncalls)

\* FetchPages catching the exception of a call and going on with the pages of
\* the other calls
FetchPages_skip_failed_page(results, before, ncalls, fail_at) ==
    [ok |-> TRUE, calls |-> before + ncalls,
     pool |-> IF fail_at > before /\ fail_at <= before + ncalls
              THEN ExtendPages(results, 1, fail_at - before - 1)
              ELSE ExtendPages(results, 1, ncalls)]

\* a loop of ncalls gateway calls after `before` earlier calls, extending a
\* pool: tmdb_get raises on call number fail_at and nothing is caught
FetchPages(results, before, ncalls, fail_at) ==
    IF fail_at > before /\ fail_at <= before + ncalls
    THEN [ok |-> FALSE, calls |-> fail_at, pool |-> <<>>]
    ELSE [ok |-> TRUE, calls |-> before + ncalls,
          pool |-> ExtendPages(results, 1, ncalls)]

\* one gateway call returning a value
FetchOne(value, before, fail_at) ==
    IF fail_at = before + 1
    THEN [ok |-> FALSE, calls |-> fail_at]
    ELSE [ok |-> TRUE, calls |-> before + 1, value |-> value]

\* the exception leaves build_recommendations; st.cache_data keeps the genre
\* catalog once get_genre_map has returned
Raised(calls, cached) == [ok |-> FALSE, calls |-> calls, cached |-> cached]

\* prefs.get("fav_actor", "")
FavActor(p) == IF "fav_actor" \in DOMAIN p THEN p.fav_actor ELSE <<>>

\* the actor boost, lines 216-222: search_person_id, then movies_by_actor
\* with pages=3 when a person was found
ActorBoost(p, gw, before) ==
    IF FavActor(p) = <<>> \/ Strip(FavActor(p)) = <<>>
    THEN [ok |-> TRUE, calls |-> before, movies |-> <<>>]
    ELSE LET found == FetchOne(gw.person, before, gw.fail_at)
         IN IF ~found.ok THEN [ok |-> FALSE, calls |-> found.calls, movies |-> <<>>]
            ELSE IF ~Truthy(found.value)
            THEN [ok |-> TRUE, calls |-> found.calls, movies |-> <<>>]
            ELSE LET pages == FetchPages(gw.actor, found.calls, 3, gw.fail_at)
                 IN [ok |-> pages.ok, calls |-> pages.calls, movies |-> pages.pool]

\* BuildPools without the language filter of line 213
BuildPools_unfiltered(p, gw, cached) ==
    LET genre == IF cached THEN [ok |-> TRUE, calls |-> 0]
                 ELSE FetchOne("genres", 0, gw.fail_at)
        lang == FetchPages(gw.lang, genre.calls,
                           2 * Len(INDIAN_LANG_CODES), gw.fail_at)
        region == FetchPages(gw.region, lang.calls,
                             2 * Len(GLOBAL_REGIONS), gw.fail_at)
        actor == ActorBoost(p, gw, region.calls)
    IN IF ~genre.ok THEN Raised(genre.calls, cached)
       ELSE IF ~lang.ok THEN Raised(lang.calls, TRUE)
       ELSE IF ~region.ok THEN Raised(region.calls, TRUE)
       ELSE IF ~actor.ok THEN Raised(actor.calls, TRUE)
       ELSE [ok |-> TRUE, calls |-> actor.calls, cached |-> TRUE,
             indian_pool |-> lang.pool \o SelectSeq(actor.movies, IsIndian),
             global_pool |->
                 region.pool \o SelectSeq(actor.movies, LAMBDA m : ~IsIndian(m))]

\* lines 184-222: the two pools, or the exception of the first failing call
BuildPools(p, gw, cached) ==
    LET genre == IF cached THEN [ok |-> TRUE, calls |-> 0]
                 ELSE FetchOne("genres", 0, gw.fail_at)
        lang == FetchPages(gw.lang, genre.calls,
                           2 * Len(INDIAN_LANG_CODES), gw.fail_at)
        region == FetchPages(gw.region, lang.calls,
                             2 * Len(GLOBAL_REGIONS), gw.fail_at)
        actor == ActorBoost(p, gw, region.calls)
    IN IF ~genre.ok THEN Raised(genre.calls, cached)
       ELSE IF ~lang.ok THEN Raised(lang.calls, TRUE)
       ELSE IF ~region.ok THEN Raised(region.calls, TRUE)
       ELSE IF ~actor.ok THEN Raised(actor.calls, TRUE)
       ELSE [ok |-> TRUE, calls |-> actor.calls, cached |-> TRUE,
             indian_pool |-> lang.pool \o SelectSeq(actor.movies, IsIndian),
             global_pool |->
                 SelectSeq(region.pool, LAMBDA m : ~IsIndian(m))
                     \o SelectSeq(actor.movies, LAMBDA m : ~IsIndian(m))]

\* Assemble with the two samples concatenated global first
Assemble_global_first(p, count, pools, rnd_indian, rnd_global) ==
    LET split == MixSplit(MixPref(p), count)
        indian_pick == balanced_sample_by_year(pools.indian_pool, split.ind_n, rnd_indian)
        global_pick == balanced_sample_by_year(pools.global_pool, split.glob_n, rnd_global)
        final == unique_movies(global_pick \o indian_pick)
    IN [ok |-> TRUE, count |-> count, calls |-> pools.calls, cached |-> pools.cached,
        ind_n |-> split.ind_n, glob_n |-> split.glob_n,
        indian_pool |-> pools.indian_pool, global_pool |-> pools.global_pool,
        indian_pick |-> indian_pick, global_pick |-> global_pick,
        recs |-> PySliceTo(final, count)]

\* lines 224-237, on the pools built
Assemble(p, count, pools, rnd_indian, rnd_global) ==
    LET split == MixSplit(MixPref(p), count)
        indian_pick == balanced_sample_by_year(pools.indian_pool, split.ind_n, rnd_indian)
        global_pick == balanced_sample_by_year(pools.global_pool, split.glob_n, rnd_global)
        final == unique_movies(indian_pick \o global_pick)
    IN [ok |-> TRUE, count |-> count, calls |-> pools.calls, cached |-> pools.cached,
        ind_n |-> split.ind_n, glob_n |-> split.glob_n,
        indian_pool |-> pools.indian_pool, global_pool |-> pools.global_pool,
        indian_pick |-> indian_pick, global_pick |-> global_pick,
        recs |-> PySliceTo(final, count)]

\* every way build_recommendations(prefs, count) can end against gw: a
\* record with ok = FALSE when a gateway call raised, else the list returned
\* (recs) with the values it was computed from, one per shuffle outcome
build_recommendations(p, count, gw, cached) ==
    LET pools == BuildPools(p, gw, cached)
    IN IF ~pools.ok
       THEN { [ok |-> FALSE, count |-> count, calls |-> pools.calls,
               cached |-> pools.cached] }
       ELSE { Assemble(p, count, pools, r1, r2) :
                r1 \in ShuffleChoices(pools.indian_pool),
                r2 \in ShuffleChoices(pools.global_pool) }

-----------------------------------------------------------------------------
(* Bounds and the records the function-level specifications draw from.     *)

MaxMovies == 3     \* longest input of unique_movies
MaxPool == 4       \* longest pool handed to balanced_sample_by_year
MaxN == 4          \* largest target count handed to balanced_sample_by_year

\* all sequences over S of length at most k
SeqsUpTo(S, k) == UNION { [1..j -> S] : j \in 0..k }

HI == <<"h", "i">>
EN == <<"e", "n">>

\* ids missing, zero and positive; two records per id, told apart by the title
DedupMovies ==
    { Movie(i, EN, <<>>, t) : i \in {NoneId, 0, 1, 2}, t \in {"a", "b"} }

\* two years of two records each (2021, and 202 read from a date with a
\* leading blank and from a signed one), a record without date, and a second
\* record of id 1 with a malformed date
SampleMovies ==
    { Movie(1, EN, <<"2", "0", "2", "1", "-", "0">>, "a"),
      Movie(2, EN, <<"2", "0", "2", "1">>, "b"),
      Movie(3, EN, <<" ", "2", "0", "2", "0">>, "c"),
      Movie(4, EN, <<"+", "2", "0", "2">>, "d"),
      Movie(5, EN, <<>>, "e"),
      Movie(1, EN, <<"2", "0", "x", "1">>, "f") }

NoCall == [fn |-> "none"]

SessionIdle ==
    /\ messages = <<>>
    /\ prefs = <<>>
    /\ q_index = 0
    /\ done = FALSE
    /\ genre_cache = FALSE
    /\ gateway = NoCall

SessionUnchanged == UNCHANGED <<messages, prefs, q_index, done, genre_cache, gateway>>

-----------------------------------------------------------------------------
(* SpecDedup: unique_movies applied to every input within the bound.       *)

InitDedup ==
    /\ SessionIdle
    /\ args \in { [fn |-> "unique_movies", movies |-> s] :
                    s \in SeqsUpTo(DedupMovies, MaxMovies) }
    /\ ret = <<>>
    /\ pc = "ready"

CallUniqueMovies ==
    /\ pc = "ready"
    /\ args.fn = "unique_movies"
    /\ ret' = unique_movies(args.movies)
    /\ pc' = "returned"
    /\ UNCHANGED args
    /\ SessionUnchanged

NextDedup == CallUniqueMovies

SpecDedup == InitDedup /\ [][NextDedup]_vars

-----------------------------------------------------------------------------
(* SpecSample: balanced_sample_by_year applied to every pool and count     *)
(* within the bounds, under every outcome of its shuffles.                 *)

InitSample ==
    /\ SessionIdle
    /\ args \in { [fn |-> "balanced_sample_by_year", movies |-> s, n |-> k] :
                    s \in SeqsUpTo(SampleMovies, MaxPool), k \in 0..MaxN }
    /\ ret = <<>>
    /\ pc = "ready"

CallBalancedSample ==
    /\ pc = "ready"
    /\ args.fn = "balanced_sample_by_year"
    /\ \E rnd \in ShuffleChoices(args.movies) :
          ret' = balanced_sample_by_year(args.movies, args.n, rnd)
    /\ pc' = "returned"
    /\ UNCHANGED args
    /\ SessionUnchanged

NextSample == CallBalancedSample

SpecSample == InitSample /\ [][NextSample]_vars

-----------------------------------------------------------------------------
(* Claims about unique_movies (SpecDedup).                                 *)

Returned(fn) == pc = "returned" /\ args.fn = fn

\* positions holding the first occurrence of a non-null identity
FirstOccurrences(s) ==
    { i \in 1..Len(s) : s[i].id # NoneId /\ \A j \in 1..(i - 1) : s[j].id # s[i].id }

\* C5: unique_movies returns the subsequence of the input made of the first
\* occurrence of each non-null identity, in input order: no identity is
\* repeated and only records lacking an identity are dropped.
C5_FirstOccurrenceOfEachIdentity ==
    Returned("unique_movies") =>
        ret = AtPositions(args.movies, FirstOccurrences(args.movies), 1)

-----------------------------------------------------------------------------
(* Claims about balanced_sample_by_year (SpecSample).                      *)

DateablePositions(u) == LET yr == Years(u) IN { i \in 1..Len(u) : yr[i].ok }

CountYear(yr, p, y) == Cardinality({ i \in 1..p : yr[i].val = y })

\* the deduplicated pool has k years of at least m records each, n <= k*m
FairnessCase(u, n) ==
    LET b == Buckets(u)
    IN /\ DOMAIN b # {}
       /\ \E m \in 1..Len(u) :
             /\ \A y \in DOMAIN b : Len(b[y]) >= m
             /\ n <= Cardinality(DOMAIN b) * m

\* C4: when the deduplicated pool has k years of at least m records each
\* and n <= k*m, the sample takes one record of every year, in descending
\* year order, before a second record of any year, and in every prefix of
\* the sample the counts of two years differ by at most one, whatever the
\* shuffles do.
C4_RoundRobinFairness ==
    (Returned("balanced_sample_by_year")
        /\ FairnessCase(unique_movies(args.movies), args.n)) =>
        LET ys == BucketYears(unique_movies(args.movies))
            k == Cardinality(ys)
            yr == Years(ret)
        IN /\ Len(ret) = args.n
           /\ \A i \in 1..Len(ret) : yr[i].ok /\ yr[i].val \in ys
           /\ \A i, j \in 1..Min(k, Len(ret)) : i < j => yr[i].val > yr[j].val
           /\ \A p \in 1..Len(ret) : \A y1, y2 \in ys :
                 CountYear(yr, p, y1) - CountYear(yr, p, y2) <= 1

\* two years of two records each, sampled into a second round
C4_Witness ==
    /\ Returned("balanced_sample_by_year")
    /\ FairnessCase(unique_movies(args.movies), args.n)
    /\ Cardinality(BucketYears(unique_movies(args.movies))) = 2
    /\ Len(ret) = 4
    /\ ret[1].id > ret[3].id

-----------------------------------------------------------------------------
(* SpecMix: infer_mix on every text within the bound, and the controller's *)
(* storing of the answer to the mix question (normalize_answer, then       *)
(* infer_mix unless the answer was skipped).                               *)

MaxWords == 3      \* words per text

MixWords ==
    { <<"i", "n", "d">>, <<"I", "n", "D">>, <<"g", "l", "o", "b">>, <<"H", "o", "l", "l", "y">>,
      <<"o", "t", "h", "e", "r">>, <<"k">>, <<" ">>, <<"S", "K", "I", "P">>, <<"x">> }

MoreIndianStuff ==
    <<"m", "o", "r", "e", " ", "i", "n", "d", "i", "a", "n", " ", "s", "t", "u", "f", "f">>

HollywoodOnly ==
    <<"h", "o", "l", "l", "y", "w", "o", "o", "d", " ", "o", "n", "l", "y">>

RECURSIVE Concat(_)
Concat(ws) == IF ws = <<>> THEN <<>> ELSE Head(ws) \o Concat(Tail(ws))

MixTexts ==
    { Concat(ws) : ws \in SeqsUpTo(MixWords, MaxWords) }
        \cup { MoreIndianStuff, HollywoodOnly }

InitMix ==
    /\ SessionIdle
    /\ args \in { [fn |-> "mix", text |-> t] : t \in MixTexts }
    /\ ret = <<>>
    /\ pc = "ready"

CallInferMix ==
    /\ pc = "ready"
    /\ args.fn = "mix"
    /\ ret' = [by |-> "infer_mix", mix |-> infer_mix(args.text)]
    /\ pc' = "returned"
    /\ UNCHANGED args
    /\ SessionUnchanged

\* prefs["mix"] as the controller stores it; it never sees a blank input
MixAnswer(user_text) ==
    LET ans == normalize_answer(user_text)
    IN IF ans # <<>> THEN infer_mix(ans) ELSE FIFTY_FIFTY

StoreMixAnswer ==
    /\ pc = "ready"
    /\ args.fn = "mix"
    /\ Strip(args.text) # <<>>
    /\ ret' = [by |-> "controller", mix |-> MixAnswer(args.text)]
    /\ pc' = "returned"
    /\ UNCHANGED args
    /\ SessionUnchanged

NextMix == CallInferMix \/ StoreMixAnswer

SpecMix == InitMix /\ [][NextMix]_vars

\* the marker occurs in the text, letter case ignored
HasMarker(t, m) ==
    \E i \in 1..(Len(t) - Len(m) + 1) :
        \A j \in 1..Len(m) : LowerChar(t[i + j - 1]) = m[j]

HasIndianMarker(t) == HasMarker(t, <<"i", "n", "d">>)

HasGlobalMarker(t) ==
    \/ HasMarker(t, <<"g", "l", "o", "b">>)
    \/ HasMarker(t, <<"h", "o", "l", "l", "y">>)
    \/ HasMarker(t, <<"o", "t", "h", "e", "r">>)

\* C7 as stated: a text with an indian marker is more_indian, a text with a
\* global/hollywood/other marker is more_global, any other text is 50_50.
C7_AsStated ==
    Returned("mix") =>
        /\ HasIndianMarker(args.text) => ret.mix = MORE_INDIAN
        /\ HasGlobalMarker(args.text) => ret.mix = MORE_GLOBAL
        /\ (~HasIndianMarker(args.text) /\ ~HasGlobalMarker(args.text))
              => ret.mix = FIFTY_FIFTY

\* C7 amended: the indian marker is tested first, so a text containing "ind"
\* is more_indian even when it also contains "glob", "holly" or "other"; a
\* text with one of these three and no "ind" is more_global; any other text,
\* empty and skipped answers included, is 50_50; letter case is ignored, and
\* "more indian stuff" and "hollywood only" are more_indian and more_global.
C7_MarkerPrecedence ==
    /\ Returned("mix") =>
          ret.mix = IF HasIndianMarker(args.text) THEN MORE_INDIAN
                    ELSE IF HasGlobalMarker(args.text) THEN MORE_GLOBAL
                    ELSE FIFTY_FIFTY
    /\ (Returned("mix") /\ args.text = MoreIndianStuff) => ret.mix = MORE_INDIAN
    /\ (Returned("mix") /\ args.text = HollywoodOnly) => ret.mix = MORE_GLOBAL
    /\ (Returned("mix") /\ Lower(Strip(args.text)) \in SKIP_WORDS)
          => ret.mix = FIFTY_FIFTY

\* the controller stored more_indian for an answer holding both kinds of
\* marker in upper and lower case
C7_Witness ==
    /\ Returned("mix")
    /\ ret.by = "controller"
    /\ HasIndianMarker(args.text) /\ ~Contains(args.text, <<"i", "n", "d">>)
    /\ HasGlobalMarker(args.text)
    /\ ret.mix = MORE_INDIAN

-----------------------------------------------------------------------------
(* SpecBuild: build_recommendations applied to preference sets, counts and *)
(* gateway answers within the bounds, no call failing.                     *)

MaxRows == 3         \* records the gateway returns to one request, over all calls
MaxBuildCount == 3   \* largest count requested against those gateways
MaxCount == 12       \* largest count whose split is computed (empty gateway)

Y2021 == <<"2", "0", "2", "1", "-", "0", "5">>
Y2020 == <<"2", "0", "2", "0", "-", "1", "1">>
Y2019 == <<"2", "0", "1", "9">>
Y2018 == <<"2", "0", "1", "8">>

\* what the language-filtered calls may return: Hindi, Tamil in upper case,
\* a record in English (TMDB not honouring the filter), a record without date
LangMovies ==
    { Movie(1, HI, Y2021, "l1"), Movie(2, <<"T", "A">>, Y2020, "l2"),
      Movie(3, EN, Y2021, "l3"), Movie(4, HI, <<>>, "l4") }

\* what the region-filtered calls may return: English, no language at all,
\* a Hindi record (also among the language results, code in mixed case), and
\* the English record the language calls return too
RegionMovies ==
    { Movie(5, EN, Y2021, "r1"), Movie(6, <<>>, Y2020, "r2"),
      Movie(1, <<"H", "i">>, Y2021, "l1"), Movie(3, EN, Y2021, "l3") }

\* what the with_cast calls may return: Kannada, English, and the Hindi
\* record of the language results
ActorMovies ==
    { Movie(7, <<"k", "n">>, Y2019, "a1"), Movie(8, EN, Y2019, "a2"),
      Movie(1, HI, Y2021, "l1") }

Gateway(lang, region, person, actor, fail_at) ==
    [lang |-> lang, region |-> region, person |-> person, actor |-> actor,
     fail_at |-> fail_at]

SomeActor == <<"K", "h", "a", "n">>

\* {"mix": mix, "fav_actor": actor}
Prefs(mix, actor) == [mix |-> mix, fav_actor |-> actor]

\* no favourite actor, one TMDB does not know, one it knows with up to k
\* movies
ActorCases(k) ==
    { [actor |-> <<>>, person |-> NoneId, movies |-> <<>>],
      [actor |-> SomeActor, person |-> NoneId, movies |-> <<>>] }
        \cup { [actor |-> SomeActor, person |-> 9, movies |-> a] :
                 a \in SeqsUpTo(ActorMovies, k) }

BuildCall(p, n, gw) ==
    [fn |-> "build_recommendations", prefs |-> p, count |-> n, gw |-> gw,
     cached |-> FALSE]

NoMovies == Gateway(<<>>, <<>>, NoneId, <<>>, 0)

\* every count and every value of the mix preference, the key missing and
\* an invalid value included, against a gateway without movies
SplitCalls ==
    { BuildCall(p, n, NoMovies) :
        p \in { [fav_actor |-> <<>>] }
                 \cup { Prefs(mix, <<>>) :
                          mix \in {FIFTY_FIFTY, MORE_INDIAN, MORE_GLOBAL, BOTH} },
        n \in 0..MaxCount }

\* spec section 8: empty preferences, count 10, 8 local-language and 8 global
\* records, each set over 4 years of 2 records
ScenarioLocal ==
    << Movie(11, HI, Y2021, "s"), Movie(12, HI, Y2021, "s"),
       Movie(13, HI, Y2020, "s"), Movie(14, HI, Y2020, "s"),
       Movie(15, HI, Y2019, "s"), Movie(16, HI, Y2019, "s"),
       Movie(17, HI, Y2018, "s"), Movie(18, HI, Y2018, "s") >>

ScenarioGlobal ==
    << Movie(21, EN, Y2021, "s"), Movie(22, EN, Y2021, "s"),
       Movie(23, EN, Y2020, "s"), Movie(24, EN, Y2020, "s"),
       Movie(25, EN, Y2019, "s"), Movie(26, EN, Y2019, "s"),
       Movie(27, EN, Y2018, "s"), Movie(28, EN, Y2018, "s") >>

ScenarioCall ==
    BuildCall([k \in {} |-> <<>>], 10,
              Gateway(ScenarioLocal, ScenarioGlobal, NoneId, <<>>, 0))

InitBuild ==
    /\ SessionIdle
    /\ \/ \E l \in SeqsUpTo(LangMovies, MaxRows) :
          \E r \in SeqsUpTo(RegionMovies, MaxRows - Len(l)) :
          \E c \in ActorCases(MaxRows - Len(l) - Len(r)) :
          \E mix \in {FIFTY_FIFTY, MORE_INDIAN, MORE_GLOBAL} :
          \E n \in 1..MaxBuildCount :
             args = BuildCall(Prefs(mix, c.actor), n,
                              Gateway(l, r, c.person, c.movies, 0))
       \/ args \in SplitCalls
       \/ args = ScenarioCall
    /\ ret = <<>>
    /\ pc = "ready"

CallBuildRecommendations ==
    /\ pc = "ready"
    /\ args.fn = "build_recommendations"
    /\ ret' \in build_recommendations(args.prefs, args.count, args.gw, args.cached)
    /\ pc' = "returned"
    /\ UNCHANGED args
    /\ SessionUnchanged

NextBuild == CallBuildRecommendations

SpecBuild == InitBuild /\ [][NextBuild]_vars

-----------------------------------------------------------------------------
(* Claims about build_recommendations (SpecBuild).                         *)

Built == Returned("build_recommendations") /\ ret.ok

\* a is b with some elements left out
RECURSIVE IsSubSeq(_, _)
IsSubSeq(a, b) ==
    IF a = <<>> THEN TRUE
    ELSE IF b = <<>> THEN FALSE
    ELSE IF Head(a) = Head(b) THEN IsSubSeq(Tail(a), Tail(b))
    ELSE IsSubSeq(a, Tail(b))

\* C1: for n >= 1 and whatever the gateway returns, the list returned has at
\* most n records and no identity twice, and it is records of the local
\* sample followed by records of the global sample.
C1_AtMostNUniqueLocalFirst ==
    (Built /\ args.count >= 1) =>
        /\ Len(ret.recs) <= args.count
        /\ NoRepeatedId(ret.recs)
        /\ \E k \in 0..Len(ret.recs) :
              /\ k <= Len(ret.indian_pick)
              /\ IsSubSeq(SubSeq(ret.recs, 1, k), ret.indian_pick)
              /\ IsSubSeq(SubSeq(ret.recs, k + 1, Len(ret.recs)), ret.global_pick)

\* the two samples shared an identity and the list kept the local record of
\* it, before a global record
C1_Witness ==
    /\ Built
    /\ Ids(ret.indian_pick) \cap Ids(ret.global_pick) # {}
    /\ Len(ret.recs) = 2
    /\ ret.recs[1] \in Range(ret.indian_pick)
    /\ ret.recs[2] \notin Range(ret.indian_pick)

\* the mix preference the request resolves to, read off the claim
ResolvedMix(p) ==
    IF "mix" \in DOMAIN p /\ p.mix \in {MORE_INDIAN, MORE_GLOBAL}
    THEN p.mix ELSE FIFTY_FIFTY

\* C6: for every n >= 0 and every mix preference, an invalid or missing one
\* counting as balanced, local_n + global_n = n with both counts in 0..n;
\* balanced gives local_n = floor(n/2), and n = 10 gives (5,5), (7,3), (3,7).
C6_MixSplitSums ==
    Built =>
        /\ ret.ind_n + ret.glob_n = args.count
        /\ ret.ind_n \in 0..args.count
        /\ ret.glob_n \in 0..args.count
        /\ ResolvedMix(args.prefs) = FIFTY_FIFTY => 2 * ret.ind_n \in {args.count - 1, args.count}
        /\ args.count = 10 =>
              <<ret.ind_n, ret.glob_n>> =
                  CASE ResolvedMix(args.prefs) = MORE_INDIAN -> <<7, 3>>
                    [] ResolvedMix(args.prefs) = MORE_GLOBAL -> <<3, 7>>
                    [] OTHER -> <<5, 5>>

\* a count on which count * 0.7 is half-way between two integers, split
\* with the preference for local movies
C6_Witness ==
    /\ Built
    /\ args.count = 5
    /\ "mix" \in DOMAIN args.prefs
    /\ args.prefs.mix = MORE_INDIAN
    /\ ret.ind_n = 4 /\ ret.glob_n = 1

\* original_language, lower-cased, is one of hi, ta, te, ml, kn
LocalLanguage(m) ==
    \E i \in 1..Len(INDIAN_LANG_CODES) :
        Lower(m.original_language) = INDIAN_LANG_CODES[i]

\* the hypothesis of C8: enough dateable records in each deduplicated pool,
\* and no identity in both pools
EnoughInBothPools ==
    /\ Cardinality(DateablePositions(unique_movies(ret.indian_pool))) >= ret.ind_n
    /\ Cardinality(DateablePositions(unique_movies(ret.global_pool))) >= ret.glob_n
    /\ Ids(ret.indian_pool) \cap Ids(ret.global_pool) = {}

\* exactly n unique records, local_n labelled Indian then global_n labelled
\* Global
ExactlyNLabelled ==
    /\ Len(ret.recs) = args.count
    /\ NoRepeatedId(ret.recs)
    /\ \A i \in 1..Len(ret.recs) :
          label_movie(ret.recs[i]) = IF i <= ret.ind_n THEN "Indian" ELSE "Global"

\* C8 as stated.
C8_AsStated == (Built /\ EnoughInBothPools) => ExactlyNLabelled

\* C8 amended: the hypothesis also asks that every record of the local pool
\* has a local language code.  The scenario of 8 local and 8 global records
\* over 4 years of 2 gives exactly 10 records, 5 Indian then 5 Global.
C8_ExactlyNWhenPoolsSuffice ==
    /\ (Built /\ EnoughInBothPools
          /\ \A i \in 1..Len(ret.indian_pool) : LocalLanguage(ret.indian_pool[i]))
          => ExactlyNLabelled
    /\ (Built /\ args = ScenarioCall) =>
          /\ Len(ret.recs) = 10
          /\ NoRepeatedId(ret.recs)
          /\ \A i \in 1..10 :
                label_movie(ret.recs[i]) = IF i <= 5 THEN "Indian" ELSE "Global"

\* a local pool whose records carry a code in upper case, and an actor boost,
\* gave the full count
C8_Witness ==
    /\ Built /\ EnoughInBothPools
    /\ \A i \in 1..Len(ret.indian_pool) : LocalLanguage(ret.indian_pool[i])
    /\ \E i \in 1..Len(ret.indian_pool) :
          ret.indian_pool[i].original_language \notin Range(INDIAN_LANG_CODES)
    /\ ret.ind_n = 2 /\ ret.glob_n = 1
    /\ Len(ret.recs) = 3

\* the first k pages of a loop
Served(results, k) == PySliceTo(results, k * PageLen)

\* what the actor calls of the request returned: they are made when a
\* favourite actor is given and the person search finds a non-zero id
ActorServed ==
    IF /\ "fav_actor" \in DOMAIN args.prefs
       /\ args.prefs.fav_actor # <<>>
       /\ args.gw.person \notin {NoneId, 0}
    THEN Served(args.gw.actor, 3) ELSE <<>>

\* C9: whatever the region and actor calls return, no record of the global
\* pool, nor of the global sample and so of the global part of the list, has
\* a local language code; the actor's local-language records are appended to
\* the local pool after the language results and to no other pool, and all
\* its other records to the global pool after the region results.
C9_GlobalPoolHasNoLocalLanguage ==
    Built =>
        /\ \A i \in 1..Len(ret.global_pool) : ~LocalLanguage(ret.global_pool[i])
        /\ \A i \in 1..Len(ret.global_pick) : ~LocalLanguage(ret.global_pick[i])
        /\ \A i \in 1..Len(ret.recs) :
              LocalLanguage(ret.recs[i]) => ret.recs[i] \in Range(ret.indian_pick)
        /\ ret.indian_pool =
              Served(args.gw.lang, 10) \o SelectSeq(ActorServed, LocalLanguage)
        /\ ret.global_pool =
              SelectSeq(Served(args.gw.region, 10), LAMBDA m : ~LocalLanguage(m))
                  \o SelectSeq(ActorServed, LAMBDA m : ~LocalLanguage(m))

\* the region calls returned a Hindi record in mixed case and the actor calls
\* a local-language record; neither is in the global pool
C9_Witness ==
    /\ Built
    /\ \E i \in 1..Len(args.gw.region) : LocalLanguage(args.gw.region[i])
    /\ \E i \in 1..Len(ActorServed) : LocalLanguage(ActorServed[i])
    /\ Len(ret.global_pool) = 1
    /\ Len(ret.global_pick) = 1

-----------------------------------------------------------------------------
(* Spec: the chat controller.  One step is one run of the script on the    *)
(* text the user submitted; the run ends at st.rerun(), which raises past  *)
(* every `except Exception` and stops the script.                          *)
(*   messages  the messages appended by the last run that appended any     *)
(*             (the history before them is only rendered),                 *)
(*   prefs, q_index, done   st.session_state,                              *)
(*   genre_cache  st.cache_data holds the result of get_genre_map,         *)
(*   gateway   what TMDB answered to the calls of the last run, NoCall     *)
(*             when it made none,                                          *)
(*   args, ret the text submitted to the last run, and what its call of    *)
(*             build_recommendations ended with (<<>> when not called).    *)

\* the keys of QUESTIONS, in order
QUESTIONS == <<"fav_movie", "fav_actor", "fav_song", "genre", "mix">>

RecommendCount == 10

User(user_text) == [role |-> "user", content |-> [text |-> user_text]]

Assistant(content) == [role |-> "assistant", content |-> content]

Greeting == Assistant([kind |-> "greeting"])

\* QUESTIONS[i][1], i counted from 0
Question(i) == Assistant([kind |-> "question", key |-> QUESTIONS[i + 1]])

StartingOver == Assistant([kind |-> "starting over"])

TypeReset == Assistant([kind |-> "type reset"])

Oops == Assistant([kind |-> "oops"])

\* one line of the response text
Line(m) ==
    [title |-> m.title,
     year |-> IF m.release_date # <<>> THEN PySliceTo(m.release_date, 4) ELSE <<"-">>,
     tag |-> label_movie(m)]

Recommendations(recs) ==
    Assistant([kind |-> "recommendations",
               lines |-> [i \in 1..Len(recs) |-> Line(recs[i])]])

\* cmd in {"reset", "start over", "restart"}
IsResetCommand(user_text) ==
    Lower(Strip(user_text)) \in
        { <<"r", "e", "s", "e", "t">>,
          <<"s", "t", "a", "r", "t", " ", "o", "v", "e", "r">>,
          <<"r", "e", "s", "t", "a", "r", "t">> }

\* lines 289-295 with the mix answer stored like every other answer
StoreAnswer_every_key_alike(p, key, user_text) ==
    (key :> normalize_answer(user_text)) @@ p

\* lines 289-295: prefs after the answer to the question of that key
StoreAnswer(p, key, user_text) ==
    (key :> IF key = "mix" THEN MixAnswer(user_text)
            ELSE normalize_answer(user_text)) @@ p

\* the calls one request can make: the genre catalog, two pages per language
\* and per region, the person search and three actor pages
MaxCalls == 1 + 2 * Len(INDIAN_LANG_CODES) + 2 * Len(GLOBAL_REGIONS) + 1 + 3

\* what TMDB may answer to a request of the chat: movies for every kind of
\* call, any one call failing or none, or local movies only and no person
\* found, the person search failing or no call
ChatGateways ==
    { Gateway(<<Movie(31, HI, Y2021, "c1"), Movie(32, <<"T", "A">>, Y2020, "c2")>>,
              <<Movie(33, EN, Y2021, "c3"), Movie(31, HI, Y2021, "c1")>>,
              9,
              <<Movie(35, <<"k", "n">>, Y2019, "c5"), Movie(36, EN, Y2019, "c6")>>,
              f) : f \in 0..MaxCalls }
    \cup
    { Gateway(<<Movie(31, HI, Y2021, "c1")>>, <<>>, NoneId, <<>>, f) :
        f \in {0, MaxCalls - 3} }

\* blank, a skip word, a reset command (a plain answer while asking), and
\* answers classified more_global and more_indian
Inputs ==
    { <<" ", " ">>,
      <<" ", "S", "k", "i", "p">>,
      <<" ", "R", "e", "s", "e", "t">>,
      <<"H", "o", "l", "l", "y">>,
      <<"I", "n", "d", "i", "a", "n">> }

ChatInput(user_text) == [fn |-> "chat", user_text |-> user_text]

\* lines 247-260: the first load greets and asks the first question
Init ==
    /\ messages = <<Greeting, Question(0)>>
    /\ prefs = <<>>
    /\ q_index = 0
    /\ done = FALSE
    /\ genre_cache = FALSE
    /\ gateway = NoCall
    /\ args = ChatInput(<<>>)
    /\ ret = <<>>
    /\ pc = "ready"

\* line 270: nothing is done with a blank text
BlankInput(user_text) ==
    /\ Strip(user_text) = <<>>
    /\ UNCHANGED vars

\* lines 275-283
ResetCommand(user_text) ==
    /\ Strip(user_text) # <<>>
    /\ done
    /\ IsResetCommand(user_text)
    /\ messages' = <<User(user_text), StartingOver, Question(0)>>
    /\ prefs' = <<>>
    /\ q_index' = 0
    /\ done' = FALSE
    /\ args' = ChatInput(user_text)
    /\ gateway' = NoCall
    /\ ret' = <<>>
    /\ UNCHANGED <<genre_cache, pc>>

\* lines 284-286
OtherInputWhenDone(user_text) ==
    /\ Strip(user_text) # <<>>
    /\ done
    /\ ~IsResetCommand(user_text)
    /\ messages' = <<User(user_text), TypeReset>>
    /\ args' = ChatInput(user_text)
    /\ gateway' = NoCall
    /\ ret' = <<>>
    /\ UNCHANGED <<prefs, q_index, done, genre_cache, pc>>

\* lines 289-303: an answer followed by the next question.  QUESTIONS[q_index]
\* raises IndexError past the table: the run ends having appended the user's
\* message only
AnswerQuestion(user_text) ==
    /\ Strip(user_text) # <<>>
    /\ ~done
    /\ IF q_index >= Len(QUESTIONS)
       THEN /\ messages' = <<User(user_text)>>
            /\ UNCHANGED <<prefs, q_index>>
       ELSE /\ q_index + 1 < Len(QUESTIONS)
            /\ prefs' = StoreAnswer(prefs, QUESTIONS[q_index + 1], user_text)
            /\ q_index' = q_index + 1
            /\ messages' = <<User(user_text), Question(q_index + 1)>>
    /\ args' = ChatInput(user_text)
    /\ gateway' = NoCall
    /\ ret' = <<>>
    /\ UNCHANGED <<done, genre_cache, pc>>

\* lines 289-298 and 304-326: the last answer, then the recommendations
Recommend(user_text) ==
    /\ Strip(user_text) # <<>>
    /\ ~done
    /\ q_index < Len(QUESTIONS)
    /\ q_index + 1 >= Len(QUESTIONS)
    /\ prefs' = StoreAnswer(prefs, QUESTIONS[q_index + 1], user_text)
    /\ q_index' = q_index + 1
    /\ \E gw \in ChatGateways :
          /\ gateway' = gw
          /\ ret' \in build_recommendations(prefs', RecommendCount, gw, genre_cache)
    /\ ret'.ok
    /\ genre_cache' = ret'.cached
    /\ messages' = <<User(user_text), Recommendations(ret'.recs)>>
    /\ done' = TRUE
    /\ args' = ChatInput(user_text)
    /\ UNCHANGED pc

\* lines 289-298 and 304-311: the last answer, then a gateway call raises
RecommendFails(user_text) ==
    /\ Strip(user_text) # <<>>
    /\ ~done
    /\ q_index < Len(QUESTIONS)
    /\ q_index + 1 >= Len(QUESTIONS)
    /\ prefs' = StoreAnswer(prefs, QUESTIONS[q_index + 1], user_text)
    /\ q_index' = q_index + 1
    /\ \E gw \in ChatGateways :
          /\ gateway' = gw
          /\ ret' \in build_recommendations(prefs', RecommendCount, gw, genre_cache)
    /\ ~ret'.ok
    /\ genre_cache' = ret'.cached
    /\ messages' = <<User(user_text), Oops>>
    /\ done' = TRUE
    /\ args' = ChatInput(user_text)
    /\ UNCHANGED pc

Next ==
    \E user_text \in Inputs :
        \/ BlankInput(user_text)
        \/ ResetCommand(user_text)
        \/ OtherInputWhenDone(user_text)
        \/ AnswerQuestion(user_text)
        \/ Recommend(user_text)
        \/ RecommendFails(user_text)

Spec == Init /\ [][Next]_vars

-----------------------------------------------------------------------------
(* Claims about the chat controller (Spec).                                *)

\* the last run asked TMDB and one of the calls it made raised
GatewayCallFailed ==
    /\ gateway # NoCall
    /\ gateway.fail_at >= 1
    /\ gateway.fail_at <= ret.calls

IsRecommendations(m) == m.role = "assistant" /\ m.content.kind = "recommendations"

\* C2: if any gateway call made during a recommendation request fails (genre
\* catalog, a language page, a region page, the person search, an actor
\* page), build_recommendations ends in a failure and returns no list, so no
\* record of an earlier call of the request is returned, and the controller
\* shows the failure notice and no recommendations.
C2_FailedCallGivesNoList ==
    GatewayCallFailed =>
        /\ ~ret.ok
        /\ "recs" \notin DOMAIN ret
        /\ ret.calls = gateway.fail_at
        /\ messages[Len(messages)] = Oops
        /\ \A i \in 1..Len(messages) : ~IsRecommendations(messages[i])
        /\ done

\* the last actor page failed after the 24 calls before it had returned
\* records
C2_Witness ==
    /\ GatewayCallFailed
    /\ gateway.fail_at = MaxCalls
    /\ gateway.lang # <<>> /\ gateway.region # <<>> /\ gateway.actor # <<>>
    /\ messages[Len(messages)] = Oops

\* Asking(i) for 0 <= i < 5, or Done
InAskingOrDone ==
    /\ q_index \in 0..Len(QUESTIONS)
    /\ done <=> q_index = Len(QUESTIONS)
    /\ DOMAIN prefs = { QUESTIONS[i] : i \in 1..q_index }

\* the text is reset, start over or restart, blanks around it and letter
\* case ignored
AsksToStartOver(t) ==
    \E w \in { <<"r", "e", "s", "e", "t">>,
               <<"s", "t", "a", "r", "t", " ", "o", "v", "e", "r">>,
               <<"r", "e", "s", "t", "a", "r", "t">> } :
        \E a, b \in 0..Len(t) :
            /\ a + Len(w) + b = Len(t)
            /\ \A i \in 1..Len(t) :
                  IF i <= a \/ i > a + Len(w) THEN IsSpace(t[i])
                  ELSE LowerChar(t[i]) = w[i - a]

\* the run of the script on a non-blank text, from Asking(q_index) or Done,
\* `stored` being what an answer to the question of a key leaves in prefs
ControllerStep(stored(_, _)) ==
    LET t == args'.user_text
    IN IF ~done
       THEN /\ q_index < Len(QUESTIONS)
            /\ q_index' = q_index + 1
            /\ DOMAIN prefs' = DOMAIN prefs \cup {QUESTIONS[q_index + 1]}
            /\ prefs'[QUESTIONS[q_index + 1]] = stored(QUESTIONS[q_index + 1], t)
            /\ \A k \in DOMAIN prefs : prefs'[k] = prefs[k]
            /\ done' = (q_index' = Len(QUESTIONS))
       ELSE IF AsksToStartOver(t)
       THEN q_index' = 0 /\ prefs' = <<>> /\ ~done'
       ELSE UNCHANGED <<prefs, q_index, done>>

NormalizedAnswer(key, t) == normalize_answer(t)

ClassifiedMixElseNormalized(key, t) ==
    IF key # "mix" THEN normalize_answer(t)
    ELSE IF normalize_answer(t) = <<>> THEN FIFTY_FIFTY
    ELSE IF HasIndianMarker(t) THEN MORE_INDIAN
    ELSE IF HasGlobalMarker(t) THEN MORE_GLOBAL
    ELSE FIFTY_FIFTY

=============================================================================
